---- MODULE Spec2Model ----
(***************************************************************************)
(* Hybrid retrieval engine of the RAG service: HybridSearcher              *)
(* (app/services/search.py) and DocumentStore                              *)
(* (app/services/enhanced_rag.py).                                         *)
(*                                                                         *)
(* A text is a sequence of one-character strings.  A dict is a set of      *)
(* <<key, value>> pairs with at most one pair per key.  Python lists are   *)
(* sequences; a Python index i names element i + 1 of the sequence.        *)
(***************************************************************************)
EXTENDS Integers, Sequences, FiniteSets, TLC

VARIABLES index, documents, document_metadata, cache, lru, now,
          store_metadata, last, pc, pending

vars == <<index, documents, document_metadata, cache, lru, now,
          store_metadata, last, pc, pending>>

(***************************************************************************)
(* Bounds of the model.                                                    *)
(***************************************************************************)
MaxDocs == 3        \* longest corpus explored
MaxK == 2           \* largest k asked of a search
MaxBatch == 2       \* longest list handed to add_documents
MaxTicks == 2       \* number of clock steps explored
TickHours == 16     \* hours the modelled clock moves in one step

(***************************************************************************)
(* Program constants.                                                      *)
(***************************************************************************)
CacheTtl == 24      \* hours, timedelta(hours=24)
RrfConstant == 60   \* rank + 60
LruMaxsize == 1000  \* lru_cache(maxsize=1000)
MaxContext == 5     \* answer_question(question, max_context=5)

(***************************************************************************)
(* Texts.                                                                  *)
(***************************************************************************)
TextA == <<"a">>
TextAB == <<"A", " ", "b">>
TextC == <<"c">>
TextU == <<"a", "_", "1">>
TextEmpty == <<>>

Texts == {TextA, TextU}

Lower(c) == CASE c = "A" -> "a" [] c = "B" -> "b" [] c = "C" -> "c"
              [] c = "T" -> "t" [] c = "X" -> "x" [] OTHER -> c

LowerText(text) == [i \in 1..Len(text) |-> Lower(text[i])]

WordChars == {"a", "b", "c", "A", "B", "C", "_", "0", "1", "2", "3", "4",
              "5", "6", "7", "8", "9"}

\* re.findall(r'\w+', text): the maximal runs of word characters, in order
RECURSIVE FindWords(_, _, _)
FindWords(text, i, run) ==
    IF i > Len(text)
    THEN IF run = <<>> THEN <<>> ELSE <<run>>
    ELSE IF text[i] \in WordChars
         THEN FindWords(text, i + 1, Append(run, text[i]))
         ELSE IF run = <<>>
              THEN FindWords(text, i + 1, <<>>)
              ELSE <<run>> \o FindWords(text, i + 1, <<>>)

_tokenize(text) == FindWords(text, 1, <<>>)

Range(s) == {s[i] : i \in 1..Len(s)}

\* set(self._tokenize(text.lower()))
Terms(text) == Range(_tokenize(LowerText(text)))

(***************************************************************************)
(* str(k) and the cache key f"{query}_{k}".                                *)
(***************************************************************************)
DigitChars == <<"0", "1", "2", "3", "4", "5", "6", "7", "8", "9">>

RECURSIVE StrNat(_)
StrNat(n) == IF n < 10 THEN <<DigitChars[n + 1]>>
             ELSE StrNat(n \div 10) \o <<DigitChars[(n % 10) + 1]>>

Str(k) == IF k < 0 THEN <<"-">> \o StrNat(0 - k) ELSE StrNat(k)

CacheKey(query, k) == query \o <<"_">> \o Str(k)

(***************************************************************************)
(* Python list helpers.                                                    *)
(***************************************************************************)
Min(a, b) == IF a <= b THEN a ELSE b
Max(a, b) == IF a >= b THEN a ELSE b

\* seq[i] is defined for -len <= i < len
PyValid(seq, i) == (0 - Len(seq)) <= i /\ i < Len(seq)

PyGet(seq, i) == IF i >= 0 THEN seq[i + 1] ELSE seq[Len(seq) + i + 1]

\* seq[:k]
PySlice(seq, k) ==
    IF k >= 0 THEN SubSeq(seq, 1, Min(k, Len(seq)))
    ELSE SubSeq(seq, 1, Max(Len(seq) + k, 0))

\* scores are exact fractions num/den with den > 0
ScoreGe(a, b) == IF a.den = b.den THEN a.num >= b.num
                 ELSE a.num * b.den >= b.num * a.den

\* a descending sort that places x before the earlier elements of equal score
RECURSIVE InsertDescBeforeTies(_, _)
InsertDescBeforeTies(s, x) ==
    IF s = <<>> THEN <<x>>
    ELSE IF ScoreGe(x.score, s[Len(s)].score)
         THEN Append(InsertDescBeforeTies(SubSeq(s, 1, Len(s) - 1), x),
                     s[Len(s)])
         ELSE Append(s, x)

\* position at which a stable descending sort places x among the already
\* placed (earlier) elements s: after every element whose score is >= x's
RECURSIVE InsertDesc(_, _)
InsertDesc(s, x) ==
    IF s = <<>> THEN <<x>>
    ELSE IF ScoreGe(s[Len(s)].score, x.score) THEN Append(s, x)
         ELSE Append(InsertDesc(SubSeq(s, 1, Len(s) - 1), x), s[Len(s)])

\* sorted(results, key=lambda x: x.score, reverse=True): stable
RECURSIVE SortDesc(_)
SortDesc(s) ==
    IF s = <<>> THEN <<>>
    ELSE InsertDesc(SortDesc(SubSeq(s, 1, Len(s) - 1)), s[Len(s)])

(***************************************************************************)
(* The embedding provider and the embedding cache.                         *)
(***************************************************************************)
Count(text, chars) == Cardinality({i \in 1..Len(text) : text[i] \in chars})

\* self.embeddings.embed_query(text): a fixed-length vector per text
Embed(text) == <<Count(text, {"a", "A"}), Count(text, {"b", "B"}),
                 Count(text, {"c", "C"})>>

\* squared Euclidean distance of IndexFlatL2
Dist(u, v) == (u[1] - v[1]) * (u[1] - v[1]) + (u[2] - v[2]) * (u[2] - v[2])
              + (u[3] - v[3]) * (u[3] - v[3])

Without(s, x) == SelectSeq(s, LAMBDA y : y # x)

\* a cache that never refreshes an entry it serves (first in, first out)
get_embeddingFifo(held, text, bad) ==
    IF text \in Range(held)
    THEN [raised |-> FALSE, held |-> held, computed |-> 0, failed |-> {}]
    ELSE IF text \in bad
         THEN [raised |-> TRUE, held |-> held, computed |-> 1,
               failed |-> {text}]
         ELSE [raised |-> FALSE, failed |-> {},
               held |-> IF Len(held) >= LruMaxsize
                        THEN Append(Tail(held), text)
                        ELSE Append(held, text),
               computed |-> 1]

\* get_embedding under lru_cache: held is the cache in recency order (least
\* recent first); bad is the set of texts the provider fails on in this call
get_embedding(held, text, bad) ==
    IF text \in Range(held)
    THEN [raised |-> FALSE, held |-> Append(Without(held, text), text),
          computed |-> 0, failed |-> {}]
    ELSE IF text \in bad
         THEN [raised |-> TRUE, held |-> held, computed |-> 1,
               failed |-> {text}]
         ELSE [raised |-> FALSE, failed |-> {},
               held |-> IF Len(held) >= LruMaxsize
                        THEN Append(Tail(held), text)
                        ELSE Append(held, text),
               computed |-> 1]

\* [self.get_embedding(doc) for doc in documents], left to right, stopping at
\* the first failure
RECURSIVE EmbedAll(_, _, _)
EmbedAll(held, docs, bad) ==
    IF docs = <<>>
    THEN [raised |-> FALSE, held |-> held, computed |-> 0, failed |-> {}]
    ELSE LET g == get_embedding(held, Head(docs), bad)
         IN IF g.raised THEN g
            ELSE LET r == EmbedAll(g.held, Tail(docs), bad)
                 IN [raised |-> r.raised, held |-> r.held,
                     computed |-> g.computed + r.computed,
                     failed |-> r.failed]

(***************************************************************************)
(* The vector index (faiss.IndexFlatL2).                                   *)
(***************************************************************************)
FltMax == 2000000000   \* stands for the float32 maximum faiss reports for a missing neighbour

\* the label rows index.search may report for k >= 1: the min(k, n) nearest
\* rows by ascending distance (rows at equal distance in either order), then
\* -1 for every neighbour that does not exist
SearchLabels(rows, qv, k) ==
    LET n == Len(rows)
        m == Min(k, n)
        d(r) == Dist(rows[r + 1], qv)
        top == {s \in [1..m -> 0..(n - 1)] :
                  /\ \A i, j \in 1..m : i < j => (s[i] # s[j] /\ d(s[i]) <= d(s[j]))
                  /\ \A r \in 0..(n - 1) :
                        (\A i \in 1..m : s[i] # r) => (m = 0 \/ d(r) >= d(s[m]))}
    IN {[i \in 1..k |-> IF i <= m THEN s[i] ELSE 0 - 1] : s \in top}

LabelDist(rows, qv, idx) == IF idx >= 0 THEN Dist(rows[idx + 1], qv) ELSE FltMax

(***************************************************************************)
(* semantic_search.  out is what the index search reported.  The value is  *)
(* [raised, value, held, computed, searched, failed].                      *)
(***************************************************************************)
RECURSIVE SemanticResults(_, _, _, _, _)
SemanticResults(docs, metas, rows, qv, labels) ==
    IF labels = <<>> THEN [raised |-> FALSE, value |-> <<>>]
    ELSE LET idx == Head(labels)
             rest == SemanticResults(docs, metas, rows, qv, Tail(labels))
         IN IF idx < Len(docs)
            THEN IF ~PyValid(docs, idx) \/ ~PyValid(metas, idx)
                 THEN [raised |-> TRUE, value |-> <<>>]
                 ELSE IF rest.raised THEN rest
                      ELSE [raised |-> FALSE,
                            value |-> <<[content |-> PyGet(docs, idx),
                                         score |-> [num |-> 1,
                                                    den |-> 1 + LabelDist(rows, qv, idx)],
                                         metadata |-> PyGet(metas, idx)]>>
                                      \o rest.value]
            ELSE rest

\* the outcomes of index.search(query_embedding, k): for k >= 1 one row of
\* labels; k = 0 is rejected by builds that assert k > 0 and answered with
\* an empty row by the others; k < 0 is rejected
SearchOutcomes(rows, qv, k) ==
    IF k >= 1 THEN {[raised |-> FALSE, labels |-> l] : l \in SearchLabels(rows, qv, k)}
    ELSE IF k = 0 THEN {[raised |-> TRUE, labels |-> <<>>],
                        [raised |-> FALSE, labels |-> <<>>]}
         ELSE {[raised |-> TRUE, labels |-> <<>>]}

\* semantic_search without its "if not self.index" guard: the search on the
\* missing index raises
semantic_searchNoGuard(idx, docs, metas, held, query, k, bad, out) ==
    LET g == get_embedding(held, query, bad)
    IN IF g.raised \/ ~idx.created \/ out.raised
       THEN [raised |-> TRUE, value |-> <<>>, held |-> g.held,
             computed |-> g.computed, searched |-> 0, failed |-> g.failed]
       ELSE LET r == SemanticResults(docs, metas, idx.rows, Embed(query),
                                     out.labels)
            IN [raised |-> r.raised, value |-> r.value, held |-> g.held,
                computed |-> g.computed, searched |-> 1, failed |-> {}]

semantic_search(idx, docs, metas, held, query, k, bad, out) ==
    IF ~idx.created
    THEN [raised |-> FALSE, value |-> <<>>, held |-> held, computed |-> 0,
          searched |-> 0, failed |-> {}]
    ELSE LET g == get_embedding(held, query, bad)
         IN IF g.raised
            THEN [raised |-> TRUE, value |-> <<>>, held |-> g.held,
                  computed |-> g.computed, searched |-> 0,
                  failed |-> g.failed]
            ELSE IF out.raised
                 THEN [raised |-> TRUE, value |-> <<>>, held |-> g.held,
                       computed |-> g.computed, searched |-> 1,
                       failed |-> {}]
                 ELSE LET r == SemanticResults(docs, metas, idx.rows,
                                               Embed(query), out.labels)
                      IN [raised |-> r.raised, value |-> r.value,
                          held |-> g.held, computed |-> g.computed,
                          searched |-> 1, failed |-> {}]

(***************************************************************************)
(* lexical_search.                                                         *)
(***************************************************************************)
\* 1000 * ln(n) for n = 1..6
LnTable == <<0, 693, 1099, 1386, 1609, 1792>>

LexicalScore(overlap, nq, nd) ==
    [num |-> overlap * 1000, den |-> nq * LnTable[1 + nd]]

RECURSIVE LexicalMatches(_, _, _, _)
LexicalMatches(qterms, docs, metas, i) ==
    IF i > Len(docs) THEN <<>>
    ELSE LET dterms == Terms(docs[i])
             overlap == Cardinality(qterms \cap dterms)
             rest == LexicalMatches(qterms, docs, metas, i + 1)
         IN IF overlap > 0
            THEN <<[content |-> docs[i],
                    score |-> LexicalScore(overlap, Cardinality(qterms),
                                           Cardinality(dterms)),
                    metadata |-> IF i - 1 < Len(metas) THEN metas[i] ELSE {}]>>
                 \o rest
            ELSE rest

lexical_search(query, docs, metas, k) ==
    PySlice(SortDesc(LexicalMatches(Terms(query), docs, metas, 1)), k)

(***************************************************************************)
(* Reciprocal rank fusion.  Fused scores are exact fractions over the      *)
(* common denominator RrfScale.                                            *)
(***************************************************************************)
RECURSIVE Gcd(_, _)
Gcd(a, b) == IF b = 0 THEN a ELSE Gcd(b, a % b)

RECURSIVE LcmUpTo(_)
LcmUpTo(rank) ==
    IF rank = 0 THEN RrfConstant
    ELSE LET l == LcmUpTo(rank - 1)
             d == rank + RrfConstant
         IN (l \div Gcd(l, d)) * d

RrfScale == LcmUpTo(Max(MaxK, MaxContext))

\* 1 / (rank + 60)
Rrf(rank) == [num |-> RrfScale \div (rank + RrfConstant), den |-> RrfScale]

Position(all, content) ==
    IF \E i \in 1..Len(all) : all[i].content = content
    THEN CHOOSE i \in 1..Len(all) : all[i].content = content
    ELSE 0

\* for rank, result in enumerate(semantic_results): all_results[content] = {...}
RECURSIVE FuseSemantic(_, _, _)
FuseSemantic(all, results, rank) ==
    IF results = <<>> THEN all
    ELSE LET r == Head(results)
             p == Position(all, r.content)
             e == [content |-> r.content, score |-> Rrf(rank),
                   metadata |-> r.metadata]
         IN FuseSemantic(IF p = 0 THEN Append(all, e) ELSE [all EXCEPT ![p] = e],
                         Tail(results), rank + 1)

\* a lexical loop that also replaces the metadata of an entry it finds
RECURSIVE FuseLexicalOverwrite(_, _, _)
FuseLexicalOverwrite(all, results, rank) ==
    IF results = <<>> THEN all
    ELSE LET r == Head(results)
             p == Position(all, r.content)
             t == Rrf(rank)
         IN FuseLexicalOverwrite(
                IF p = 0
                THEN Append(all, [content |-> r.content, score |-> t,
                                  metadata |-> r.metadata])
                ELSE [all EXCEPT ![p].score =
                                    [num |-> @.num + t.num, den |-> RrfScale],
                                 ![p].metadata = r.metadata],
                Tail(results), rank + 1)

\* for rank, result in enumerate(lexical_results): += or a new entry
RECURSIVE FuseLexical(_, _, _)
FuseLexical(all, results, rank) ==
    IF results = <<>> THEN all
    ELSE LET r == Head(results)
             p == Position(all, r.content)
             t == Rrf(rank)
         IN FuseLexical(
                IF p = 0
                THEN Append(all, [content |-> r.content, score |-> t,
                                  metadata |-> r.metadata])
                ELSE [all EXCEPT ![p].score =
                         [num |-> @.num + t.num, den |-> RrfScale]],
                Tail(results), rank + 1)

\* final_results.sort(key=score, reverse=True); final_results[:k]
Final(all, k) == PySlice(SortDesc(all), k)

Fuse(semantic, lexical, k) ==
    Final(FuseLexical(FuseSemantic(<<>>, semantic, 0), lexical, 0), k)

(***************************************************************************)
(* The result cache.  An entry is [time, results].                         *)
(***************************************************************************)
CacheHitAlways(c, key, t) == key \in DOMAIN c

CacheHitFlipped(c, key, t) == key \in DOMAIN c /\ t - c[key].time > CacheTtl

\* cache_key in self.cache and datetime.now() - cache_time < self.cache_ttl
CacheHit(c, key, t) == key \in DOMAIN c /\ t - c[key].time < CacheTtl

CachePut(c, key, t, results) ==
    [x \in DOMAIN c \cup {key} |->
        IF x = key THEN [time |-> t, results |-> results] ELSE c[x]]

(***************************************************************************)
(* hybrid_search.  The value is [raised, hit, value, held, cache,          *)
(* computed, searched, scanned, semantic, lexical].                        *)
(***************************************************************************)
hybrid_search(idx, docs, metas, c, held, t, query, k, bad, out) ==
    LET key == CacheKey(query, k)
    IN IF CacheHit(c, key, t)
       THEN [raised |-> FALSE, hit |-> TRUE, value |-> c[key].results,
             held |-> held, cache |-> c, computed |-> 0, searched |-> 0,
             scanned |-> 0, semantic |-> <<>>, lexical |-> <<>>,
             failed |-> {}]
       ELSE LET sem == semantic_search(idx, docs, metas, held, query, k, bad, out)
            IN IF sem.raised
               THEN [raised |-> TRUE, hit |-> FALSE, value |-> <<>>,
                     held |-> sem.held, cache |-> c,
                     computed |-> sem.computed, searched |-> sem.searched,
                     scanned |-> 0, semantic |-> <<>>, lexical |-> <<>>,
                     failed |-> sem.failed]
               ELSE LET lex == lexical_search(query, docs, metas, k)
                        final == Fuse(sem.value, lex, k)
                    IN [raised |-> FALSE, hit |-> FALSE, value |-> final,
                        held |-> sem.held,
                        cache |-> CachePut(c, key, t, final),
                        computed |-> sem.computed, searched |-> sem.searched,
                        scanned |-> 1, semantic |-> sem.value, lexical |-> lex,
                        failed |-> {}]

(***************************************************************************)
(* add_documents.  meta is [given, list]: given is FALSE when the          *)
(* metadata argument is omitted.  The value is [raised, index, documents,  *)
(* document_metadata, held, computed, failed].                             *)
(***************************************************************************)
EmptyDicts(n) == [i \in 1..n |-> {}]

\* self.document_metadata.extend(metadata)
ExtendMeta(metas, docs, list) == metas \o list

AddRows(rows, docs) == rows \o [i \in 1..Len(docs) |-> Embed(docs[i])]

\* add_documents that extends the lists before it computes the embeddings
add_documentsExtendFirst(idx, docs0, metas0, held, docs, meta, bad) ==
    LET list == IF meta.given THEN meta.list ELSE EmptyDicts(Len(docs))
        e == EmbedAll(held, docs, bad)
    IN [raised |-> e.raised,
        index |-> IF e.raised \/ docs = <<>> THEN idx
                  ELSE [created |-> TRUE, rows |-> AddRows(idx.rows, docs)],
        documents |-> docs0 \o docs,
        document_metadata |-> ExtendMeta(metas0, docs, list),
        held |-> e.held, computed |-> e.computed, failed |-> e.failed]

add_documents(idx, docs0, metas0, held, docs, meta, bad) ==
    IF docs = <<>>
    THEN [raised |-> FALSE, index |-> idx, documents |-> docs0,
          document_metadata |-> metas0, held |-> held, computed |-> 0,
          failed |-> {}]
    ELSE LET list == IF meta.given THEN meta.list ELSE EmptyDicts(Len(docs))
             e == EmbedAll(held, docs, bad)
         IN IF e.raised
            THEN [raised |-> TRUE, index |-> idx, documents |-> docs0,
                  document_metadata |-> metas0, held |-> e.held,
                  computed |-> e.computed, failed |-> e.failed]
            ELSE [raised |-> FALSE,
                  index |-> [created |-> TRUE, rows |-> AddRows(idx.rows, docs)],
                  documents |-> docs0 \o docs,
                  document_metadata |-> ExtendMeta(metas0, docs, list),
                  held |-> e.held, computed |-> e.computed, failed |-> {}]

(***************************************************************************)
(* The record of the last call: what it was given, what it observed and    *)
(* what it answered.                                                       *)
(***************************************************************************)
NoPre == [index |-> [created |-> FALSE, rows |-> <<>>], documents |-> <<>>,
          document_metadata |-> <<>>, cache |-> <<>>, taken |-> FALSE]

NoSeen == [rows |-> 0, docs |-> 0, metas |-> 0, read |-> FALSE]

NoLast == [op |-> "none", raised |-> FALSE, hit |-> FALSE, value |-> <<>>,
           computed |-> 0, searched |-> 0, scanned |-> 0,
           semantic |-> <<>>, lexical |-> <<>>, query |-> <<>>, k |-> 0,
           at |-> 0, priorTime |-> 0 - 1, priorValue |-> <<>>,
           docs |-> <<>>, failed |-> {}, pre |-> NoPre, seen |-> NoSeen,
           returned |-> [none |-> TRUE, id |-> 0], assigned |-> 0 - 1,
           asked |-> <<>>, askedBefore |-> <<>>, status |-> 0,
           file |-> [filename |-> <<>>, size |-> 0, text |-> <<>>,
                     readable |-> FALSE]]

Snapshot == [index |-> index, documents |-> documents,
             document_metadata |-> document_metadata, cache |-> cache,
             taken |-> TRUE]

(***************************************************************************)
(* State machine of one HybridSearcher used by one caller at a time.       *)
(***************************************************************************)
Init ==
    /\ index = [created |-> FALSE, rows |-> <<>>]
    /\ documents = <<>>
    /\ document_metadata = <<>>
    /\ cache = <<>>
    /\ lru = <<>>
    /\ now = 0
    /\ store_metadata = <<>>
    /\ last = NoLast
    /\ pc = "idle"
    /\ pending = [docs |-> <<>>, list |-> <<>>]

AddDocuments(docs, meta, bad) ==
    /\ pc = "idle"
    /\ Len(documents) + Len(docs) <= MaxDocs
    /\ \E r \in {add_documents(index, documents, document_metadata, lru,
                               docs, meta, bad)} :
          /\ index' = r.index
          /\ documents' = r.documents
          /\ document_metadata' = r.document_metadata
          /\ lru' = r.held
          /\ last' = [NoLast EXCEPT !.op = "add_documents",
                         !.raised = r.raised, !.computed = r.computed,
                         !.docs = docs, !.failed = r.failed, !.at = now,
                         !.pre = IF r.raised THEN Snapshot ELSE NoPre]
    /\ UNCHANGED <<cache, now, store_metadata, pc, pending>>

\* one whole hybrid_search call, on the state as it is when the call runs
Search(query, k, bad) ==
    /\ LET key == CacheKey(query, k)
       IN /\ DOMAIN cache \subseteq {key}
          /\ \E out \in SearchOutcomes(index.rows, Embed(query), k) :
               \E r \in {hybrid_search(index, documents, document_metadata,
                                       cache, lru, now, query, k, bad, out)} :
                  /\ cache' = r.cache
                  /\ lru' = r.held
                  /\ last' = [NoLast EXCEPT !.op = "hybrid_search",
                                 !.raised = r.raised, !.hit = r.hit,
                                 !.value = r.value, !.computed = r.computed,
                                 !.searched = r.searched,
                                 !.scanned = r.scanned,
                                 !.semantic = r.semantic,
                                 !.lexical = r.lexical,
                                 !.query = query, !.k = k, !.failed = r.failed,
                                 !.at = now,
                                 !.priorTime = IF key \in DOMAIN cache
                                               THEN cache[key].time ELSE 0 - 1,
                                 !.priorValue = IF key \in DOMAIN cache
                                                THEN cache[key].results ELSE <<>>,
                                 !.seen = IF r.hit THEN NoSeen
                                          ELSE [rows |-> Len(index.rows),
                                                docs |-> Len(documents),
                                                metas |-> Len(document_metadata),
                                                read |-> TRUE]]
    /\ UNCHANGED <<index, documents, document_metadata, now, store_metadata,
                   pc, pending>>

HybridSearch(query, k, bad) ==
    /\ pc = "idle"
    /\ Search(query, k, bad)

\* the clock of datetime.now() moves on
Tick ==
    /\ now < MaxTicks * TickHours
    /\ now' = now + TickHours
    /\ last' = [NoLast EXCEPT !.op = "tick", !.at = now']
    /\ UNCHANGED <<index, documents, document_metadata, cache, lru,
                   store_metadata, pc, pending>>

\* clear_cache
ClearCache ==
    /\ pc = "idle"
    /\ cache # <<>> \/ lru # <<>>
    /\ cache' = <<>>
    /\ lru' = <<>>
    /\ last' = [NoLast EXCEPT !.op = "clear_cache", !.at = now]
    /\ UNCHANGED <<index, documents, document_metadata, now, store_metadata,
                   pc, pending>>

MetaX == {<<"source", "x">>}

\* every k is asked of the empty store, k >= 1 of a store that holds documents
Ks == IF documents = <<>> THEN (0 - 1)..MaxK ELSE 1..MaxK

Omitted == [given |-> FALSE, list |-> <<>>]

\* the caller adds one document at a time and keeps one question in the
\* result cache at a time (it calls clear_cache before it asks another)
Next ==
    \/ \E doc \in Texts : AddDocuments(<<doc>>, Omitted, {})
    \/ \E query \in Texts, k \in Ks :
          \E bad \in {{}, {query}} : HybridSearch(query, k, bad)
    \/ Tick
    \/ ClearCache

Spec == Init /\ [][Next]_vars

(***************************************************************************)
(* One HybridSearcher whose caller hands add_documents lists of any length *)
(* up to MaxBatch, with the metadata omitted or given as a list of any     *)
(* length up to MaxBatch, while the embedding provider may fail on a text. *)
(***************************************************************************)
Batches == UNION {[1..n -> Texts] : n \in 0..MaxBatch}

MetaArgs == {Omitted} \cup {[given |-> TRUE, list |-> l] :
                              l \in UNION {[1..n -> {MetaX}] : n \in 0..MaxBatch}}

BadSets == {{}} \cup {{t} : t \in Texts}

NextAdd ==
    \/ \E docs \in Batches, meta \in MetaArgs, bad \in BadSets :
          /\ Len(document_metadata) + Len(meta.list) <= MaxDocs + 1
          /\ AddDocuments(docs, meta, bad)
    \/ HybridSearch(TextA, 1, {})
    \/ ClearCache

SpecAdd == Init /\ [][NextAdd]_vars

(***************************************************************************)
(* DocumentStore: add_document and search on top of its HybridSearcher.    *)
(***************************************************************************)
\* {**d, key: value}
DictSet(d, key, value) == {p \in d : p[1] # key} \cup {<<key, value>>}

\* datetime.now().isoformat(): the clock reading written out
IsoFormat(t) == StrNat(t) \o <<"h">>

\* self.document_metadata[doc_id] = enriched
StorePut(store, doc_id, enriched) ==
    [x \in DOMAIN store \cup {doc_id} |->
        IF x = doc_id THEN enriched ELSE store[x]]

Enrich(metadata, t, doc_id) ==
    DictSet(DictSet(metadata, "added_at", IsoFormat(t)), "doc_id", doc_id)

\* doc_id = len(self.document_metadata)
NextDocId(store) == Cardinality(DOMAIN store)

\* add_document has no return statement: the call evaluates to None
StoreAddDocument(content, metadata, bad) ==
    /\ pc = "idle"
    /\ Len(documents) < MaxDocs
    /\ NextDocId(store_metadata) <= MaxDocs
    /\ LET doc_id == NextDocId(store_metadata)
           enriched == Enrich(metadata, now, doc_id)
       IN /\ store_metadata' = StorePut(store_metadata, doc_id, enriched)
          /\ \E r \in {add_documents(index, documents, document_metadata, lru,
                                     <<content>>,
                                     [given |-> TRUE, list |-> <<enriched>>],
                                     bad)} :
               /\ index' = r.index
               /\ documents' = r.documents
               /\ document_metadata' = r.document_metadata
               /\ lru' = r.held
               /\ last' = [NoLast EXCEPT !.op = "add_document",
                              !.raised = r.raised, !.computed = r.computed,
                              !.docs = <<content>>, !.failed = r.failed,
                              !.at = now, !.assigned = doc_id,
                              !.returned = [none |-> TRUE, id |-> 0]]
    /\ UNCHANGED <<cache, now, pc, pending>>

\* search: hybrid_search, each result reshaped into a record of the same
\* three fields
StoreSearch(query, k, bad) == HybridSearch(query, k, bad)

MetaIdClash == {<<"source", "x">>, <<"doc_id", 9>>}

NextStore ==
    \/ \E content \in Texts, metadata \in {MetaX, MetaIdClash} :
          \E bad \in {{}, {content}} : StoreAddDocument(content, metadata, bad)
    \/ \E query \in Texts : StoreSearch(query, 1, {})
    \/ Tick
    \/ ClearCache

SpecStore == Init /\ [][NextStore]_vars

(***************************************************************************)
(* One HybridSearcher shared by two threads: one runs add_documents        *)
(* statement by statement, the other runs hybrid_search.                   *)
(***************************************************************************)
\* lines 35-43: the embeddings of the batch are computed
ThreadAddEmbed(docs) ==
    /\ pc = "idle"
    /\ docs # <<>>
    /\ Len(documents) + Len(docs) <= MaxDocs
    /\ \E e \in {EmbedAll(lru, docs, {})} : lru' = e.held
    /\ pending' = [docs |-> docs, list |-> EmptyDicts(Len(docs))]
    /\ pc' = "embedded"
    /\ last' = [NoLast EXCEPT !.op = "add_documents", !.docs = docs, !.at = now]
    /\ UNCHANGED <<index, documents, document_metadata, cache, now,
                   store_metadata>>

\* lines 46-49: self.index.add(...)
ThreadAddIndex ==
    /\ pc = "embedded"
    /\ index' = [created |-> TRUE, rows |-> AddRows(index.rows, pending.docs)]
    /\ pc' = "indexed"
    /\ UNCHANGED <<documents, document_metadata, cache, lru, now,
                   store_metadata, last, pending>>

\* line 50: self.documents.extend(documents)
ThreadAddDocs ==
    /\ pc = "indexed"
    /\ documents' = documents \o pending.docs
    /\ pc' = "extended"
    /\ UNCHANGED <<index, document_metadata, cache, lru, now, store_metadata,
                   last, pending>>

\* line 51: self.document_metadata.extend(metadata)
ThreadAddMeta ==
    /\ pc = "extended"
    /\ document_metadata' = ExtendMeta(document_metadata, pending.docs,
                                       pending.list)
    /\ pc' = "idle"
    /\ pending' = [docs |-> <<>>, list |-> <<>>]
    /\ UNCHANGED <<index, documents, cache, lru, now, store_metadata, last>>

\* the other thread's hybrid_search, wherever the adding thread stands
ThreadSearch(query, k) == Search(query, k, {})

NextThreads ==
    \/ \E docs \in Batches : ThreadAddEmbed(docs)
    \/ ThreadAddIndex
    \/ ThreadAddDocs
    \/ ThreadAddMeta
    \/ \E query \in Texts, k \in 1..MaxK : ThreadSearch(query, k)
    \/ ClearCache

SpecThreads == Init /\ [][NextThreads]_vars

(***************************************************************************)
(* Claims about hybrid_search and its result cache, checked under Spec.    *)
(***************************************************************************)
LastKey == CacheKey(last.query, last.k)

Searched == last.op = "hybrid_search"

PriorAge == last.at - last.priorTime

\* C1: a hybrid_search(query, k) that finds an entry for (query, k) younger
\* than the 24-hour TTL is a cache hit: it computes no embedding, searches no
\* index, scans no corpus, and returns the list the entry holds, which is the
\* list the call that stored the entry returned; the entry stays as it is.
C1_HitWithinTtl ==
    (Searched /\ last.priorTime >= 0 /\ PriorAge < CacheTtl) =>
        /\ ~last.raised
        /\ last.hit
        /\ last.computed = 0 /\ last.searched = 0 /\ last.scanned = 0
        /\ last.value = last.priorValue
        /\ LastKey \in DOMAIN cache
        /\ cache[LastKey] = [time |-> last.priorTime, results |-> last.priorValue]

C1_Witness ==
    /\ Searched /\ last.hit
    /\ PriorAge > 0 /\ PriorAge < CacheTtl
    /\ Len(last.value) = 2
    /\ Len(documents) = 2

\* C2: a hybrid_search that finds an entry older than the TTL does not return
\* it: when the call returns, it has run the index search and the lexical
\* scan again, returns the list fused from them, and the entry now holds that
\* list stamped with the time of the call.
C2_ExpiredRecomputed ==
    (Searched /\ last.priorTime >= 0 /\ PriorAge > CacheTtl /\ ~last.raised) =>
        /\ ~last.hit
        /\ last.scanned = 1
        /\ (index.created => last.searched = 1)
        /\ last.value = Fuse(last.semantic, last.lexical, last.k)
        /\ LastKey \in DOMAIN cache
        /\ cache[LastKey] = [time |-> last.at, results |-> last.value]

C2_Witness ==
    /\ Searched /\ ~last.raised
    /\ last.priorTime >= 0 /\ PriorAge > CacheTtl
    /\ last.priorValue = <<>>
    /\ last.value # <<>>

Positions(list, content) == {i \in 1..Len(list) : list[i].content = content}

\* the sums the claim allows for content: one term 1/(rank + 60) for each of
\* the two lists that holds it, rank being a position of it in that list
TermsOf(list, content) ==
    IF Positions(list, content) = {} THEN {0}
    ELSE {Rrf(i - 1).num : i \in Positions(list, content)}

AllowedScores(content) ==
    {s + l : s \in TermsOf(last.semantic, content),
             l \in TermsOf(last.lexical, content)}

\* C5: every entry computed on a cache miss has as score the sum of one term
\* 1/(rank + 60) per list (semantic, lexical) that holds its content.
C5_OneTermPerList ==
    (Searched /\ ~last.hit /\ ~last.raised) =>
        \A i \in 1..Len(last.value) :
            /\ last.value[i].score.den = RrfScale
            /\ last.value[i].score.num \in AllowedScores(last.value[i].content)

NonIncreasing(list) ==
    \A i \in 1..(Len(list) - 1) : ScoreGe(list[i].score, list[i + 1].score)

\* C6: for k >= 1, hybrid_search(query, k) returns at most k entries in
\* non-increasing order of fused score, and exactly k entries whenever the
\* corpus holds at least k documents with pairwise distinct content.
C6_ExactlyK ==
    (Searched /\ ~last.raised /\ last.k >= 1) =>
        /\ Len(last.value) <= last.k
        /\ NonIncreasing(last.value)
        /\ (Cardinality(Range(documents)) >= last.k => Len(last.value) = last.k)

\* C10: hybrid_search on a store to which no document has been added returns
\* the empty list and does not raise, whatever the query and k.
C10_EmptyStore ==
    (Searched /\ documents = <<>>) => (~last.raised /\ last.value = <<>>)

C10_Witness ==
    /\ Searched /\ documents = <<>> /\ ~index.created
    /\ ~last.hit /\ last.k < 0 /\ last.value = <<>> /\ ~last.raised

(***************************************************************************)
(* Claims about add_documents, checked under SpecAdd.                      *)
(***************************************************************************)
Added == last.op = "add_documents"

\* C3: after any sequence of add_documents calls, the vector index, the
\* document list and the metadata list hold the same number of entries.
C3_LockStep ==
    /\ Len(index.rows) = Len(documents)
    /\ Len(documents) = Len(document_metadata)

\* C7: when the embedding computation raises during add_documents, the call
\* raises, the vector index, the documents, the metadata and the result cache
\* are as they were before the call, and the embedding cache holds no entry
\* for the text whose computation failed.
C7_FailedAddChangesNothing ==
    (Added /\ last.raised) =>
        /\ last.pre.taken
        /\ index = last.pre.index
        /\ documents = last.pre.documents
        /\ document_metadata = last.pre.document_metadata
        /\ cache = last.pre.cache
        /\ last.failed # {}
        /\ last.failed \subseteq Range(last.docs)
        /\ last.failed \cap Range(lru) = {}

C7_Witness ==
    /\ Added /\ last.raised
    /\ Len(last.docs) = 2 /\ last.failed = {last.docs[2]}
    /\ last.docs[1] \in Range(lru)
    /\ documents # <<>> /\ cache # <<>>

(***************************************************************************)
(* Claims about DocumentStore.add_document, checked under SpecStore.       *)
(***************************************************************************)
\* C4: the identifiers assigned are 0, 1, 2, ... without repetition, and the
\* document at position i of the searcher carries metadata doc_id = i.
C4_IdsMatchPositions ==
    /\ DOMAIN store_metadata = 0..(Cardinality(DOMAIN store_metadata) - 1)
    /\ \A i \in 1..Len(document_metadata) :
          <<"doc_id", i - 1>> \in document_metadata[i]

\* C9: add_document returns the identifier it assigned, which is the number
\* of identifiers assigned before the call.
C9_ReturnsDocId ==
    (last.op = "add_document" /\ ~last.raised) =>
        /\ last.assigned = Cardinality(DOMAIN store_metadata) - 1
        /\ ~last.returned.none
        /\ last.returned.id = last.assigned

(***************************************************************************)
(* Claim about concurrent use, checked under SpecThreads.                  *)
(***************************************************************************)
\* C8: no hybrid_search that reads the index and the lists sees them hold
\* different numbers of entries.
C8_NoTornRead ==
    last.seen.read =>
        (last.seen.rows = last.seen.docs /\ last.seen.docs = last.seen.metas)

(***************************************************************************)
(* The embedding cache alone: a caller of get_embedding that first asks    *)
(* for new texts until the cache is full, and from then on asks for one    *)
(* more new text or asks again for one of its oldest texts.                *)
(***************************************************************************)
MaxExtra == 2    \* new texts asked for beyond the capacity of the cache
MaxRecall == 2   \* the texts 0..MaxRecall are the ones asked for again

\* the text argument: the decimal numeral of n
NumText(n) == StrNat(n)

\* the texts in the order of their latest request, once text is asked for
Ask(asked, text) == Append(Without(asked, text), text)

GetEmbedding(text) ==
    /\ pc = "idle"
    /\ \E r \in {get_embedding(lru, text, {})} :
          /\ lru' = r.held
          /\ last' = [NoLast EXCEPT !.op = "get_embedding", !.query = text,
                         !.raised = r.raised, !.computed = r.computed,
                         !.asked = Ask(last.asked, text),
                         !.askedBefore = last.asked, !.at = now]
    /\ UNCHANGED <<index, documents, document_metadata, cache, now,
                   store_metadata, pc, pending>>

NextLru ==
    \/ /\ Len(last.asked) < LruMaxsize + MaxExtra
       /\ GetEmbedding(NumText(Len(last.asked)))
    \/ \E n \in 0..MaxRecall :
          /\ Len(last.asked) >= LruMaxsize
          /\ GetEmbedding(NumText(n))

SpecLru == Init /\ [][NextLru]_vars

\* the LruMaxsize texts asked for most recently, least recent first
Recent(asked) ==
    SubSeq(asked, Max(1, Len(asked) - LruMaxsize + 1), Len(asked))

\* C11: the embedding cache never holds more than 1000 texts, and it holds
\* exactly the texts asked for most recently: a new text asked for while 1000
\* are held evicts the least recently used one and nothing else, so a text is
\* recomputed exactly when it is not among the 1000 asked for most recently
\* before the call, and every other text is served without recomputation.
C11_LruBound ==
    /\ Len(lru) <= LruMaxsize
    /\ last.op = "get_embedding" =>
          /\ lru = Recent(last.asked)
          /\ (last.computed = 0) <=> (last.query \in Range(Recent(last.askedBefore)))

\* a text evicted from the full cache is asked for again and recomputed
C11_Witness ==
    /\ last.op = "get_embedding"
    /\ last.query = NumText(0)
    /\ last.computed = 1
    /\ Len(last.askedBefore) > LruMaxsize
    /\ Len(lru) = LruMaxsize
    /\ NumText(1) \in Range(lru)

(***************************************************************************)
(* Claims about the ranked lists and the fusion, checked under Spec.       *)
(***************************************************************************)
\* the ways to list every stored row once
RowOrders == {p \in [1..Len(index.rows) -> 1..Len(index.rows)] :
                \A i, j \in DOMAIN p : p[i] = p[j] => i = j}

\* C12: a semantic search for k neighbours over an index that holds fewer
\* than k rows returns exactly as many results as there are rows: one result
\* for each stored row and no row more than once.
C12_AllRowsOnce ==
    (Searched /\ ~last.raised /\ last.searched = 1
       /\ Len(index.rows) < last.k) =>
      /\ Len(last.semantic) = Len(index.rows)
      /\ \E p \in RowOrders :
            \A i \in DOMAIN p : last.semantic[i].content = documents[p[i]]

(***************************************************************************)
(* lexical_search alone, over a corpus built one document at a time from   *)
(* texts of one and two tokens, asked with queries of no, one and two      *)
(* tokens.                                                                 *)
(***************************************************************************)
TextAC == <<"a", " ", "c">>

LexTexts == {TextA, TextAB, TextC}

LexQueries == {TextEmpty, TextC, TextAB, TextAC}

LexicalSearch(query, k) ==
    /\ pc = "idle"
    /\ last' = [NoLast EXCEPT !.op = "lexical_search", !.query = query,
                   !.k = k, !.scanned = Len(documents), !.at = now,
                   !.value = lexical_search(query, documents,
                                            document_metadata, k)]
    /\ UNCHANGED <<index, documents, document_metadata, cache, lru, now,
                   store_metadata, pc, pending>>

NextLexical ==
    \/ \E doc \in LexTexts : AddDocuments(<<doc>>, Omitted, {})
    \/ \E query \in LexQueries, k \in 0..MaxK : LexicalSearch(query, k)

SpecLexical == Init /\ [][NextLexical]_vars

\* the stored documents that share a token with the query of the last call
Sharing == {i \in 1..Len(documents) :
              Terms(last.query) \cap Terms(documents[i]) # {}}

ScoreOf(i) ==
    LexicalScore(Cardinality(Terms(last.query) \cap Terms(documents[i])),
                 Cardinality(Terms(last.query)),
                 Cardinality(Terms(documents[i])))

\* document i is listed before document j
Before(i, j) ==
    \/ ~ScoreGe(ScoreOf(j), ScoreOf(i))
    \/ ScoreGe(ScoreOf(i), ScoreOf(j)) /\ ScoreGe(ScoreOf(j), ScoreOf(i))
          /\ i < j

\* the sharing document with r - 1 sharing documents listed before it
Ranked(r) ==
    CHOOSE i \in Sharing :
       Cardinality({j \in Sharing : Before(j, i)}) = r - 1

\* C13: lexical_search(query, documents, k) returns the first k of exactly
\* the documents that share a token with the query, by score descending and,
\* among equal scores, in corpus order; a document that shares no token (every
\* document when the query has no token) is absent.
C13_LexicalOrder ==
    last.op = "lexical_search" =>
      /\ Len(last.value) = Min(last.k, Cardinality(Sharing))
      /\ \A r \in 1..Len(last.value) :
            /\ last.value[r].content = documents[Ranked(r)]
            /\ last.value[r].score = ScoreOf(Ranked(r))

\* two documents of equal score are returned in corpus order, a third sharing
\* document of lower score stored before them is cut off, and the corpus
\* holds no document that shares nothing with the query
C13_Witness ==
    /\ last.op = "lexical_search"
    /\ Len(last.value) = 2
    /\ Cardinality(Sharing) = 3
    /\ last.value[1].content # last.value[2].content
    /\ ScoreGe(last.value[2].score, last.value[1].score)
    /\ documents[1] \notin {last.value[1].content, last.value[2].content}

(***************************************************************************)
(* One HybridSearcher whose caller gives every document its own metadata,  *)
(* so that stored documents of identical text can differ in metadata.      *)
(***************************************************************************)
MetaY == {<<"source", "y">>}

Given(metadata) == [given |-> TRUE, list |-> <<metadata>>]

NextMeta ==
    \/ \E doc \in Texts, metadata \in {MetaX, MetaY} :
          AddDocuments(<<doc>>, Given(metadata), {})
    \/ \E query \in Texts, k \in 1..MaxK : HybridSearch(query, k, {})
    \/ ClearCache

SpecMeta == Init /\ [][NextMeta]_vars

\* the last call computed its result from the two ranked lists
Fused == Searched /\ ~last.raised /\ ~last.hit

\* the occurrences in the order the fusion processes them
Processed == last.semantic \o last.lexical

Occurrences(list, content) == {i \in 1..Len(list) : list[i].content = content}

LastOf(list, content) ==
    CHOOSE i \in Occurrences(list, content) :
       \A j \in Occurrences(list, content) : j <= i

FirstOf(list, content) ==
    CHOOSE i \in Occurrences(list, content) :
       \A j \in Occurrences(list, content) : i <= j

\* the text occurs in the ranked lists with different metadata
Differing(content) ==
    \E i, j \in Occurrences(Processed, content) :
       Processed[i].metadata # Processed[j].metadata

Recomputed ==
    {r.value : r \in {h \in {hybrid_search(index, documents,
                                           document_metadata, <<>>, lru, now,
                                           last.query, last.k, {}, out) :
                               out \in SearchOutcomes(index.rows,
                                                      Embed(last.query),
                                                      last.k)} :
                        ~h.raised}}

\* C15: a hybrid_search(query, k) issued after a successful add_documents
\* returns the fusion computed over the corpus that includes the added
\* documents, also when the same (query, k) was answered before the addition
\* and less than the TTL has passed.
C15_FreshAfterAdd ==
    (Searched /\ ~last.raised /\ documents # <<>>) =>
       last.value \in Recomputed

(***************************************************************************)
(* The upload endpoint of the API over the module's one EnhancedRAG.  A    *)
(* file is [filename, size, text, readable]: its name, the length of its   *)
(* content in bytes, and the text the extractor reads from the content     *)
(* (readable is FALSE when the extractor raises).                          *)
(***************************************************************************)
MAX_FILE_SIZE == 100 * 1024 * 1024

supported_formats ==
    {<<"p", "d", "f">>, <<"d", "o", "c", "x">>, <<"d", "o", "c">>,
     <<"p", "p", "t", "x">>, <<"p", "p", "t">>, <<"t", "x", "t">>,
     <<"c", "s", "v">>}

HasDot(filename) == \E i \in 1..Len(filename) : filename[i] = "."

LastDot(filename) ==
    CHOOSE i \in 1..Len(filename) :
       /\ filename[i] = "."
       /\ \A j \in (i + 1)..Len(filename) : filename[j] # "."

\* file.filename.split('.')[-1].lower() if '.' in file.filename else ''
FileExt(filename) ==
    IF HasDot(filename)
    THEN LowerText(SubSeq(filename, LastDot(filename) + 1, Len(filename)))
    ELSE <<>>

\* EnhancedRAG.add_document: the metadata handed to the document store
FileMetadata(filename, file_type, t) ==
    DictSet(DictSet(DictSet({<<"source", filename>>}, "doc_type", file_type),
                    "added_at", IsoFormat(t)),
            "file_type", file_type)

\* the status an HTTPException raised inside the try block leaves with:
\* the handler of `except Exception` catches it and raises its own
Caught(status) == 500

\* the upload is refused before process_file is called
Refused(file) ==
    \/ file.filename = <<>>
    \/ file.size > MAX_FILE_SIZE
    \/ FileExt(file.filename) \notin supported_formats

\* a refused upload, or one whose text cannot be extracted
UploadRejected(file) ==
    /\ Refused(file) \/ ~file.readable
    /\ last' = [NoLast EXCEPT
                   !.op = "upload_file", !.file = file, !.at = now,
                   !.raised = TRUE, !.pre = Snapshot,
                   !.status = IF file.filename = <<>> THEN 400
                              ELSE IF Refused(file) THEN Caught(400)
                              ELSE Caught(500)]
    /\ UNCHANGED <<index, documents, document_metadata, cache, lru,
                   store_metadata>>

\* process_file stores the text; when that fails the endpoint answers 500,
\* otherwise it answers the question from the store
UploadProcessed(file, question, bad) ==
    /\ ~Refused(file) /\ file.readable
    /\ Len(documents) < MaxDocs
    /\ NextDocId(store_metadata) <= MaxDocs
    /\ LET doc_id == NextDocId(store_metadata)
           file_ext == FileExt(file.filename)
           enriched == Enrich(FileMetadata(file.filename, file_ext, now),
                              now, doc_id)
       IN /\ store_metadata' = StorePut(store_metadata, doc_id, enriched)
          /\ \E a \in {add_documents(index, documents, document_metadata, lru,
                                     <<file.text>>,
                                     [given |-> TRUE, list |-> <<enriched>>],
                                     bad)} :
               /\ index' = a.index
               /\ documents' = a.documents
               /\ document_metadata' = a.document_metadata
               /\ IF a.raised
                  THEN /\ lru' = a.held
                       /\ cache' = cache
                       /\ last' = [NoLast EXCEPT
                                      !.op = "upload_file", !.file = file,
                                      !.at = now, !.raised = TRUE,
                                      !.failed = a.failed,
                                      !.assigned = doc_id,
                                      !.status = Caught(500)]
                  ELSE \E out \in SearchOutcomes(a.index.rows, Embed(question),
                                                 MaxContext) :
                         \E r \in {hybrid_search(a.index, a.documents,
                                                 a.document_metadata, cache,
                                                 a.held, now, question,
                                                 MaxContext, bad, out)} :
                            /\ lru' = r.held
                            /\ cache' = r.cache
                            /\ last' = [NoLast EXCEPT
                                           !.op = "upload_file",
                                           !.file = file, !.at = now,
                                           !.docs = <<file.text>>,
                                           !.query = question,
                                           !.k = MaxContext, !.hit = r.hit,
                                           !.value = r.value,
                                           !.assigned = doc_id,
                                           !.status = 200]

upload_file_endpoint(file, question, bad) ==
    /\ pc = "idle"
    /\ UploadRejected(file) \/ UploadProcessed(file, question, bad)
    /\ UNCHANGED <<now, pc, pending>>

FileNames == {<<>>, <<"a">>, <<"a", ".", "e", "x", "e">>,
              <<"a", ".", "T", "X", "T">>,
              <<"a", ".", "b", ".", "p", "d", "f">>}

FileSizes == {MAX_FILE_SIZE, MAX_FILE_SIZE + 1}

\* every file holds the same text
Files == [filename : FileNames, size : FileSizes, text : {TextA},
          readable : BOOLEAN]

NextUpload ==
    \E file \in Files :
       \E bad \in {{}, {file.text}} : upload_file_endpoint(file, TextA, bad)

SpecUpload == Init /\ [][NextUpload]_vars

\* C16: upload_file_endpoint answers an upload whose content exceeds 100MB,
\* or whose file extension is not in the supported set, with an HTTP error of
\* status 400, and does not add the file to the document store.
C16_Rejected400 ==
    (/\ last.op = "upload_file"
     /\ \/ last.file.size > MAX_FILE_SIZE
        \/ FileExt(last.file.filename) \notin supported_formats) =>
       /\ last.status = 400
       /\ last.assigned = 0 - 1
       /\ last.pre.taken
       /\ index = last.pre.index
       /\ documents = last.pre.documents
       /\ document_metadata = last.pre.document_metadata

====
